---- MODULE Spec2Model ----
(***************************************************************************)
(* A model of the two executable examples of the repository:               *)
(*   - src/yuh.py: class Calculator and calculator_with_error_handling     *)
(*   - src/api/yuh.py: class User, class UserService and the session of    *)
(*     the ORM the service commits through, UserSchema and the resources   *)
(*     UserListResource and UserResource; and the service as gunicorn's    *)
(*     workers call it, each through a session of its own on one table.    *)
(* Numbers are Python numbers: an int is exact, a float is a binary        *)
(* floating-point number whose significand has MantBits bits (binary64 has *)
(* 53; the model scales the width down, the rounding rule is the same:     *)
(* round to nearest, ties to even).  Text is a sequence of one-character   *)
(* strings.                                                                *)
(***************************************************************************)
EXTENDS Integers, Sequences, FiniteSets, TLC

VARIABLES
    result,                \* Calculator.__result
    operations_performed,  \* Calculator.__operations_performed
    operation_name,        \* Calculator.__operation_name
    last,                  \* history: the last Calculator call, its arguments and return value
    calls,                 \* history: number of calls made to the Calculator's operations
    pc,                    \* calculator_with_error_handling: the input() the loop waits at
    choice,                \* calculator_with_error_handling: choice
    num1,                  \* calculator_with_error_handling: num1
    out,                   \* the line printed last
    line,                  \* history: the line read last
    ev,                    \* history: what the last input() call did
    db,                    \* the users table: the committed rows, by id
    sess,                  \* db.session: the rows as the session holds them, by id
    svc,                   \* history: the last UserService call and what it returned
    ctx,                   \* the application context of an HTTP request is open
    resp,                  \* history: the last HTTP request and the response to it
    made,                  \* history: by id, the user_data a user was created from, until
                           \* update_user or delete_user is called on the id
    work                   \* by worker, the UserService call it runs in a session of its
                           \* own: where it is, what it loaded, and what it returned

calcVars == <<result, operations_performed, operation_name, last, calls>>

menuVars == <<pc, choice, num1, out, line, ev>>

userVars == <<db, sess, svc>>

apiVars == <<ctx, resp>>

vars == <<calcVars, menuVars, userVars, apiVars, made, work>>

---------------------------------------------------------------------------
(* Bounds of the model *)

\* significand width of the model's floats
MantBits == 4
\* int operands are drawn from -MaxInt..MaxInt
MaxInt == 2
\* a Calculator is driven for at most MaxOps calls
MaxOps == 2
\* the users table holds ids up to MaxId
MaxId == 2

\* gunicorn workers serving requests at once (the documented command starts 4)
NumWorkers == 2

---------------------------------------------------------------------------
(* Python numbers *)

Abs(i) == IF i < 0 THEN -i ELSE i

RECURSIVE GCD(_, _)
GCD(a, b) == IF b = 0 THEN a ELSE GCD(b, a % b)

RECURSIVE Pow(_, _)
Pow(b, e) == IF e = 0 THEN 1 ELSE b * Pow(b, e - 1)

\* the fraction n/d (d > 0) in lowest terms
Norm(n, d) ==
    LET g == GCD(Abs(n), d)
    IN  IF n = 0 THEN <<0, 1>> ELSE <<n \div g, d \div g>>

\* floor(log2(a/d)) for a > 0, d > 0
RECURSIVE Expo(_, _)
Expo(a, d) ==
    IF a >= 2 * d THEN 1 + Expo(a, 2 * d)
    ELSE IF a < d THEN Expo(2 * a, d) - 1
    ELSE 0

\* The float nearest to the real n/d (d > 0): round to nearest, ties to even,
\* on a significand of MantBits bits.  The result is a fraction in lowest terms.
Round(n, d) ==
    IF n = 0 THEN <<0, 1>>
    ELSE
        LET a   == Abs(n)
            e   == Expo(a, d) - (MantBits - 1)
            num == IF e < 0 THEN a * Pow(2, -e) ELSE a
            den == IF e < 0 THEN d ELSE d * Pow(2, e)
            q   == num \div den
            r   == num % den
            m   == IF 2 * r > den \/ (2 * r = den /\ q % 2 = 1) THEN q + 1 ELSE q
            s   == IF n < 0 THEN -1 ELSE 1
        IN  IF e < 0 THEN Norm(s * m, Pow(2, -e)) ELSE <<s * m * Pow(2, e), 1>>

\* a Python int
MkInt(i) == [k |-> "int", n |-> i, d |-> 1, nz |-> FALSE]

\* a Python float of value f[1]/f[2]; nz marks the negative zero -0.0
MkFloat(f, negzero) == [k |-> "float", n |-> f[1], d |-> f[2], nz |-> (f[1] = 0 /\ negzero)]

\* x == 0 in Python: numeric comparison, true of 0, 0.0 and -0.0
IsZero(x) == x.n = 0

\* the sign bit of a number
Neg(x) == x.n < 0 \/ x.nz

BothInt(x, y) == x.k = "int" /\ y.k = "int"

\* a + b
PyAdd(x, y) ==
    LET n == x.n * y.d + y.n * x.d
        d == x.d * y.d
    IN  IF BothInt(x, y) THEN MkInt(x.n + y.n)
        ELSE MkFloat(Round(n, d), x.nz /\ y.nz)

\* a - b
PySub(x, y) ==
    LET n == x.n * y.d - y.n * x.d
        d == x.d * y.d
    IN  IF BothInt(x, y) THEN MkInt(x.n - y.n)
        ELSE MkFloat(Round(n, d), x.nz /\ IsZero(y) /\ ~y.nz)

\* a * b
PyMul(x, y) ==
    IF BothInt(x, y) THEN MkInt(x.n * y.n)
    ELSE MkFloat(Round(x.n * y.n, x.d * y.d), Neg(x) # Neg(y))

\* a / b for b != 0: true division, always a float
PyDiv(x, y) ==
    LET s == IF y.n < 0 THEN -1 ELSE 1
    IN  MkFloat(Round(s * x.n * y.d, x.d * Abs(y.n)), Neg(x) # Neg(y))

---------------------------------------------------------------------------
(* Text: str() of a number and float() of a line of input *)

Digits == <<"0", "1", "2", "3", "4", "5", "6", "7", "8", "9">>

DigitChar(i) == Digits[i + 1]

IsDigit(c) == \E i \in 1..10 : Digits[i] = c

DigitVal(c) == (CHOOSE i \in 1..10 : Digits[i] = c) - 1

\* the decimal digits of a natural number
RECURSIVE NatText(_)
NatText(i) == IF i < 10 THEN <<DigitChar(i)>> ELSE Append(NatText(i \div 10), DigitChar(i % 10))

\* the f decimal digits of c < 10^f, with leading zeros
RECURSIVE FracText(_, _)
FracText(c, f) == IF f = 0 THEN <<>> ELSE Append(FracText(c \div 10, f - 1), DigitChar(c % 10))

\* The decimal with f fractional digits that repr() prints for the positive float n/d,
\* as the integer c of c/10^f, or -1 when no decimal with f fractional digits reads
\* back as n/d.
ReprCandidate(n, d, f) ==
    LET p   == Pow(10, f)
        lo  == (n * p) \div d
        rem == (n * p) % d
        okLo == Round(lo, p) = <<n, d>>
        okHi == Round(lo + 1, p) = <<n, d>>
    IN  IF okLo /\ okHi THEN (IF 2 * rem <= d THEN lo ELSE lo + 1)
        ELSE IF okLo THEN lo
        ELSE IF okHi THEN lo + 1
        ELSE -1

\* The least number of fractional digits with which the positive float n/d reads back.
RECURSIVE ReprDigits(_, _, _)
ReprDigits(n, d, f) == IF ReprCandidate(n, d, f) >= 0 THEN f ELSE ReprDigits(n, d, f + 1)

\* str(x): for a float the shortest decimal that reads back as x, in fixed notation
\* with at least one fractional digit (the notation of 1e-4 <= |x| < 1e16 and of zero);
\* for an int its digits.
Str(x) ==
    LET sign == IF Neg(x) THEN <<"-">> ELSE <<>>
        a    == Abs(x.n)
        f    == ReprDigits(a, x.d, 0)
        c    == ReprCandidate(a, x.d, f)
        p    == Pow(10, f)
    IN  IF x.k = "int" THEN sign \o NatText(a)
        ELSE sign \o NatText(c \div p) \o <<".">> \o (IF f = 0 THEN <<"0">> ELSE FracText(c % p, f))

\* the value of a digit string read as a natural number
RECURSIVE NatVal(_)
NatVal(s) == IF s = <<>> THEN 0 ELSE 10 * NatVal(SubSeq(s, 1, Len(s) - 1)) + DigitVal(s[Len(s)])

\* float(s) for a line of input s: an optional sign, then digits with at most one
\* decimal point and at least one digit; any other text raises ValueError.
ParseFloat(s) ==
    LET signed == s # <<>> /\ s[1] \in {"-", "+"}
        body   == IF signed THEN SubSeq(s, 2, Len(s)) ELSE s
        dots   == {i \in 1..Len(body) : body[i] = "."}
        digs   == SelectSeq(body, IsDigit)
        f      == IF dots = {} THEN 0 ELSE Len(body) - (CHOOSE i \in dots : TRUE)
        wellFormed ==
            /\ digs # <<>>
            /\ Cardinality(dots) <= 1
            /\ \A i \in 1..Len(body) : IsDigit(body[i]) \/ body[i] = "."
        neg    == signed /\ s[1] = "-"
        mag    == Round(NatVal(digs), Pow(10, f))
    IN  IF wellFormed
        THEN [ok |-> TRUE, v |-> MkFloat(<<IF neg THEN -mag[1] ELSE mag[1], mag[2]>>, neg)]
        ELSE [ok |-> FALSE, v |-> MkInt(0)]

---------------------------------------------------------------------------
(* class User (src/api/yuh.py) *)

MaxNameLen == 100

MaxAge == 150

\* Python values of a user's fields
None == [t |-> "none"]

PyStr(s) == [t |-> "str", s |-> s]

PyInt(i) == [t |-> "int", v |-> i]

\* a key that a dict does not hold
Missing == [t |-> "missing"]

\* "not x" of Python
Falsy(x) == x = None \/ (x.t = "str" /\ x.s = <<>>) \/ (x.t = "int" /\ x.v = 0)

Letters ==
    {
     "a", "b", "c", "d", "e", "f", "g", "h", "i", "j", "k", "l", "m",
     "n", "o", "p", "q", "r", "s", "t", "u", "v", "w", "x", "y", "z",
     "A", "B", "C", "D", "E", "F", "G", "H", "I", "J", "K", "L", "M",
     "N", "O", "P", "Q", "R", "S", "T", "U", "V", "W", "X", "Y", "Z"}

IsAlnum(c) == c \in Letters \/ IsDigit(c)

\* [a-zA-Z0-9._%+-]
IsLocalChar(c) == IsAlnum(c) \/ c \in {".", "_", "%", "+", "-"}

\* [a-zA-Z0-9.-]
IsDomainChar(c) == IsAlnum(c) \/ c \in {".", "-"}

\* User.is_email_valid: re.match of ^[a-zA-Z0-9._%+-]+@[a-zA-Z0-9.-]+\.[a-zA-Z]{2,}$
\* ($ also matches before one final newline)
is_email_valid(email) ==
    LET e == IF email # <<>> /\ email[Len(email)] = "\n"
             THEN SubSeq(email, 1, Len(email) - 1) ELSE email
        n == Len(e)
    IN  \E i \in 2..n, j \in 4..n :
            /\ i + 1 < j
            /\ j + 2 <= n
            /\ e[i] = "@"
            /\ e[j] = "."
            /\ \A x \in 1..(i - 1) : IsLocalChar(e[x])
            /\ \A x \in (i + 1)..(j - 1) : IsDomainChar(e[x])
            /\ \A x \in (j + 1)..n : e[x] \in Letters

\* User.is_valid
is_valid(user) ==
    IF Falsy(user.name) \/ Len(user.name.s) > MaxNameLen THEN FALSE
    ELSE IF Falsy(user.email) \/ ~is_email_valid(user.email.s) THEN FALSE
    ELSE IF user.age = None \/ user.age.t # "int" \/ user.age.v < 0 \/ user.age.v > MaxAge THEN FALSE
    ELSE TRUE

\* the columns of table users as they would be without unique=True
Constraints_nonunique(rows) ==
    \A i \in DOMAIN rows : rows[i].name # None /\ rows[i].email # None /\ rows[i].age # None

\* the columns of table users: email unique, name, email and age not null
Constraints(rows) ==
    /\ \A i \in DOMAIN rows : rows[i].name # None /\ rows[i].email # None /\ rows[i].age # None
    /\ \A i \in DOMAIN rows, j \in DOMAIN rows : rows[i].email = rows[j].email => i = j

---------------------------------------------------------------------------
(* class UserService (src/api/yuh.py) and db.session *)

\* field values a caller may pass
Names == {PyStr(<<"A", "l">>), PyStr([i \in 1..(MaxNameLen + 1) |-> "x"])}

Emails ==
    {PyStr(<<"a", "@", "b", ".", "c", "o">>),
     PyStr(<<"c", "@", "d", ".", "i", "o">>)}

\* an email that is_email_valid rejects
BadEmails == {PyStr(<<"a", "@", "b", ".", "c">>)}

Ages == {PyInt(30), PyInt(MaxAge + 50)}

\* user_data: a dict with any of the keys name, email and age
Datas == [name : Names \cup {Missing}, email : Emails \cup {Missing}, age : Ages \cup {Missing}]

\* user_data of create_user, which may also hold an email that is not well-formed
CreateDatas == Datas \cup [name : Names, email : BadEmails, age : Ages]

NoData == [name |-> Missing, email |-> Missing, age |-> Missing]

\* key in user_data
Has(user_data, key) == user_data[key] # Missing

\* user_data.get(key)
Get(user_data, key) == IF Has(user_data, key) THEN user_data[key] ELSE None

\* the ids a caller may name
Ids == 1..MaxId

\* the worker processes of the server
Workers == 1..NumWorkers

NoRow == [name |-> None, email |-> None, age |-> None, created_at |-> 0]

\* a worker between two calls
IdleWork ==
    [pc |-> "idle", op |-> "none", id |-> 0, data |-> NoData, seen |-> NoRow,
     email |-> None, ok |-> FALSE, error |-> "", rivals |-> {}]

\* UserService.get_all_users: the rows of the session
get_all_users == sess

\* UserService.get_user_by_id on the rows of the session: the id, or 0 for None
get_user_by_id(rows, user_id) == IF user_id \in DOMAIN rows THEN user_id ELSE 0

\* UserService.get_user_by_email on the rows of the session: the id of the first row
\* with that email, or 0 for None
get_user_by_email(rows, email) ==
    LET hits == {i \in DOMAIN rows : rows[i].email = email}
    IN  IF hits = {} THEN 0 ELSE CHOOSE i \in hits : \A j \in hits : i <= j

\* the id of an inserted row: one more than the greatest id of the table
NextId(rows) == IF DOMAIN rows = {} THEN 1 ELSE 1 + (CHOOSE i \in DOMAIN rows : \A j \in DOMAIN rows : j <= i)

ServiceReturn(op, user_id, user_data, ok, user, error) ==
    [op |-> op, id |-> user_id, data |-> user_data, ok |-> ok, user |-> user, error |-> error]

\* a commit that would leave the session with the rows of before
Commit_stale(rows, op, user_id, user_data, user) ==
    IF Constraints(rows)
    THEN /\ db' = rows
         /\ sess' = db
         /\ svc' = ServiceReturn(op, user_id, user_data, TRUE, user, "")
    ELSE /\ db' = db
         /\ sess' = db
         /\ svc' = ServiceReturn(op, user_id, user_data, FALSE, 0, "Database integrity error")

\* db.session.commit() of the rows the session holds, and the except clauses that
\* roll back: the call returns onSuccess, or the integrity error
Commit(rows, op, user_id, user_data, user) ==
    IF Constraints(rows)
    THEN /\ db' = rows
         /\ sess' = rows
         /\ svc' = ServiceReturn(op, user_id, user_data, TRUE, user, "")
    ELSE /\ db' = db
         /\ sess' = db
         /\ svc' = ServiceReturn(op, user_id, user_data, FALSE, 0, "Database integrity error")

\* create_user as it would be if invalid data were refused without a message
create_user_silent(user_data) ==
    LET id   == NextId(sess)
        user == [name |-> Get(user_data, "name"), email |-> Get(user_data, "email"),
                 age |-> Get(user_data, "age"), created_at |-> id]
    IN  IF ~is_valid(user)
        THEN /\ svc' = ServiceReturn("create_user", 0, user_data, FALSE, 0, "")
             /\ UNCHANGED <<db, sess>>
        ELSE IF get_user_by_email(sess, user.email) # 0
        THEN /\ svc' = ServiceReturn("create_user", 0, user_data, FALSE, 0, "Email already exists")
             /\ UNCHANGED <<db, sess>>
        ELSE /\ id <= MaxId
             /\ Commit(sess @@ (id :> user), "create_user", 0, user_data, id)

\* UserService.create_user.  created_at is the time of the insert: time is counted
\* in rows, a new row being later than every row of the table.
create_user(user_data) ==
    LET id   == NextId(sess)
        user == [name |-> Get(user_data, "name"), email |-> Get(user_data, "email"),
                 age |-> Get(user_data, "age"), created_at |-> id]
    IN  IF ~is_valid(user)
        THEN /\ svc' = ServiceReturn("create_user", 0, user_data, FALSE, 0, "Invalid user data")
             /\ UNCHANGED <<db, sess>>
        ELSE IF get_user_by_email(sess, user.email) # 0
        THEN /\ svc' = ServiceReturn("create_user", 0, user_data, FALSE, 0, "Email already exists")
             /\ UNCHANGED <<db, sess>>
        ELSE /\ id <= MaxId
             /\ Commit(sess @@ (id :> user), "create_user", 0, user_data, id)

\* update_user as it would be without the check of the new email
update_user_unchecked(user_id, user_data) ==
    LET named   == IF Has(user_data, "name")
                   THEN [sess EXCEPT ![user_id].name = user_data.name] ELSE sess
        mailed  == IF Has(user_data, "email")
                   THEN [named EXCEPT ![user_id].email = user_data.email] ELSE named
        aged    == IF Has(user_data, "age")
                   THEN [mailed EXCEPT ![user_id].age = user_data.age] ELSE mailed
    IN  IF get_user_by_id(sess, user_id) = 0
        THEN /\ svc' = ServiceReturn("update_user", user_id, user_data, FALSE, 0, "User not found")
             /\ UNCHANGED <<db, sess>>
        ELSE IF ~is_valid(aged[user_id])
        THEN /\ svc' = ServiceReturn("update_user", user_id, user_data, FALSE, 0, "Invalid user data")
             /\ sess' = aged
             /\ db' = db
        ELSE Commit(aged, "update_user", user_id, user_data, user_id)

\* UserService.update_user
update_user(user_id, user_data) ==
    LET named   == IF Has(user_data, "name")
                   THEN [sess EXCEPT ![user_id].name = user_data.name] ELSE sess
        existing_user == get_user_by_email(named, user_data.email)
        mailed  == IF Has(user_data, "email")
                   THEN [named EXCEPT ![user_id].email = user_data.email] ELSE named
        aged    == IF Has(user_data, "age")
                   THEN [mailed EXCEPT ![user_id].age = user_data.age] ELSE mailed
    IN  IF get_user_by_id(sess, user_id) = 0
        THEN /\ svc' = ServiceReturn("update_user", user_id, user_data, FALSE, 0, "User not found")
             /\ UNCHANGED <<db, sess>>
        ELSE IF Has(user_data, "email") /\ existing_user # 0 /\ existing_user # user_id
        THEN /\ svc' = ServiceReturn("update_user", user_id, user_data, FALSE, 0, "Email already exists")
             /\ sess' = named
             /\ db' = db
        ELSE IF ~is_valid(aged[user_id])
        THEN /\ svc' = ServiceReturn("update_user", user_id, user_data, FALSE, 0, "Invalid user data")
             /\ sess' = aged
             /\ db' = db
        ELSE Commit(aged, "update_user", user_id, user_data, user_id)

\* delete_user as it would be without db.session.delete(user)
delete_user_kept(user_id) ==
    IF get_user_by_id(sess, user_id) = 0
    THEN /\ svc' = ServiceReturn("delete_user", user_id, NoData, FALSE, 0, "User not found")
         /\ UNCHANGED <<db, sess>>
    ELSE Commit(sess, "delete_user", user_id, NoData, 0)

\* UserService.delete_user
delete_user(user_id) ==
    IF get_user_by_id(sess, user_id) = 0
    THEN /\ svc' = ServiceReturn("delete_user", user_id, NoData, FALSE, 0, "User not found")
         /\ UNCHANGED <<db, sess>>
    ELSE Commit([i \in DOMAIN sess \ {user_id} |-> sess[i]], "delete_user", user_id, NoData, 0)

\* The session ends (the application context of a request is torn down): what was
\* not committed is rolled back.
SessionRemove ==
    /\ sess' = db
    /\ UNCHANGED <<db, svc>>

---------------------------------------------------------------------------
(* UserSchema, UserListResource and UserResource (src/api/yuh.py) *)

\* the characters of the user part that fields.Email accepts: letters, digits, the
\* underscore and the punctuation below (and the backquote, which no input holds)
IsAtomChar(c) ==
    IsAlnum(c) \/ c \in {"-", "!", "#", "$", "%", "&", "'", "*", "+", "/", "=", "?", "^",
                         "{", "}", "|", "~", "_"}

IsLabelChar(c) == IsAlnum(c) \/ c = "-"

\* the user part fields.Email accepts: atoms separated by single dots (the quoted form
\* is left out: no input holds a quote)
IsEmailUser(u) ==
    /\ u # <<>>
    /\ \A x \in 1..Len(u) : IsAtomChar(u[x]) \/ u[x] = "."
    /\ u[1] # "." /\ u[Len(u)] # "."
    /\ \A x \in 1..(Len(u) - 1) : ~(u[x] = "." /\ u[x + 1] = ".")

\* the domain part fields.Email accepts: localhost, or labels of at most 63 letters,
\* digits and inner hyphens, each followed by a dot, then two or more letters, digits
\* or hyphens
IsEmailDomain(d) ==
    \/ d = <<"l", "o", "c", "a", "l", "h", "o", "s", "t">>
    \/ \E j \in 2..(Len(d) - 2) :
          /\ d[j] = "."
          /\ \A x \in (j + 1)..Len(d) : IsLabelChar(d[x])
          /\ \A x \in 1..j : IsLabelChar(d[x]) \/ d[x] = "."
          /\ IsAlnum(d[1])
          /\ \A x \in 2..j : d[x] = "." => IsAlnum(d[x - 1]) /\ (x < j => IsAlnum(d[x + 1]))
          /\ \A x \in 1..(j - 63) : \E y \in x..(x + 63) : d[y] = "."

\* fields.Email of UserSchema: the value is split at its last @
IsSchemaEmail(e) ==
    \E i \in 1..Len(e) :
        /\ e[i] = "@"
        /\ \A x \in (i + 1)..Len(e) : e[x] # "@"
        /\ IsEmailUser(SubSeq(e, 1, i - 1))
        /\ IsEmailDomain(SubSeq(e, i + 1, Len(e)))

\* fields.Integer of UserSchema: an int, or text that int() reads (here: digits)
LoadInteger(x) ==
    IF x.t = "int" THEN [ok |-> TRUE, v |-> x]
    ELSE IF x.t = "str" /\ x.s # <<>> /\ \A i \in 1..Len(x.s) : IsDigit(x.s[i])
    THEN [ok |-> TRUE, v |-> PyInt(NatVal(x.s))]
    ELSE [ok |-> FALSE, v |-> x]

\* user_schema.load(json, partial): the fields of UserSchema.  A field that is absent
\* fails unless partial; name is text of 1..100 characters, email an email address,
\* age an integer in 0..150.  The result is the dict of the fields present.
Load(json, partial) ==
    LET age    == IF Has(json, "age") THEN LoadInteger(json.age) ELSE [ok |-> TRUE, v |-> Missing]
        nameOk == IF Has(json, "name")
                  THEN json.name.t = "str" /\ Len(json.name.s) >= 1 /\ Len(json.name.s) <= MaxNameLen
                  ELSE partial
        mailOk == IF Has(json, "email")
                  THEN json.email.t = "str" /\ IsSchemaEmail(json.email.s)
                  ELSE partial
        ageOk  == IF Has(json, "age")
                  THEN age.ok /\ age.v.v >= 0 /\ age.v.v <= MaxAge
                  ELSE partial
    IN  IF nameOk /\ mailOk /\ ageOk
        THEN [ok |-> TRUE, data |-> [name |-> json.name, email |-> json.email, age |-> age.v]]
        ELSE [ok |-> FALSE, data |-> NoData]

\* user_schema.dump(user): the fields of the User object the session holds
Dump(rows, id) ==
    [id |-> id, name |-> rows[id].name, email |-> rows[id].email, age |-> rows[id].age,
     created_at |-> rows[id].created_at]

\* users_schema.dump(users): the rows in the order of their ids
RECURSIVE DumpMany(_, _)
DumpMany(rows, ids) ==
    IF ids = {} THEN <<>>
    ELSE LET i == CHOOSE i \in ids : \A j \in ids : i <= j
         IN  <<Dump(rows, i)>> \o DumpMany(rows, ids \ {i})

\* the text of an error message of the service
ErrorText(error) ==
    CASE error = "User not found" ->
             <<"U", "s", "e", "r", " ", "n", "o", "t", " ", "f", "o", "u", "n", "d">>
      [] error = "Email already exists" ->
             <<"E", "m", "a", "i", "l", " ", "a", "l", "r", "e", "a", "d", "y", " ",
               "e", "x", "i", "s", "t", "s">>
      [] error = "Invalid user data" ->
             <<"I", "n", "v", "a", "l", "i", "d", " ", "u", "s", "e", "r", " ", "d", "a", "t", "a">>
      [] error = "Database integrity error" ->
             <<"D", "a", "t", "a", "b", "a", "s", "e", " ", "i", "n", "t", "e", "g", "r", "i",
               "t", "y", " ", "e", "r", "r", "o", "r">>
      [] OTHER -> <<>>

\* 'not found' in error
NotFoundIn(error) ==
    LET sub == <<"n", "o", "t", " ", "f", "o", "u", "n", "d">>
        s   == ErrorText(error)
    IN  \E i \in 1..(Len(s) - Len(sub) + 1) : SubSeq(s, i, i + Len(sub) - 1) = sub

\* a request, its body, and the status, the message and the users of the response
Response(method, user_id, json, status, message, users) ==
    [method |-> method, id |-> user_id, json |-> json, status |-> status,
     message |-> message, users |-> users]

NoResp == Response("none", 0, NoData, 0, "", <<>>)

\* no request was made
ApiIdle ==
    /\ ctx = FALSE
    /\ resp = NoResp

\* UserListResource.get
UserListResource_get ==
    /\ ctx = FALSE
    /\ ctx' = TRUE
    /\ resp' = Response("GET", 0, NoData, 200, "", DumpMany(get_all_users, DOMAIN get_all_users))
    /\ UNCHANGED userVars

\* UserListResource.post as it would be if it did not look at the error
UserListResource_post_unchecked(json) ==
    LET loaded == Load(json, FALSE)
    IN  /\ ctx = FALSE
        /\ ctx' = TRUE
        /\ IF ~loaded.ok
           THEN /\ resp' = Response("POST", 0, json, 400, "Validation error", <<>>)
                /\ UNCHANGED userVars
           ELSE /\ create_user(loaded.data)
                /\ resp' = IF svc'.error # ""
                           THEN Response("POST", 0, json, 201, "", <<>>)
                           ELSE Response("POST", 0, json, 201, "", <<Dump(sess', svc'.user)>>)

\* UserListResource.post
UserListResource_post(json) ==
    LET loaded == Load(json, FALSE)
    IN  /\ ctx = FALSE
        /\ ctx' = TRUE
        /\ IF ~loaded.ok
           THEN /\ resp' = Response("POST", 0, json, 400, "Validation error", <<>>)
                /\ UNCHANGED userVars
           ELSE /\ create_user(loaded.data)
                /\ resp' = IF svc'.error # ""
                           THEN Response("POST", 0, json, 400, svc'.error, <<>>)
                           ELSE Response("POST", 0, json, 201, "", <<Dump(sess', svc'.user)>>)

\* UserResource.get
UserResource_get(user_id) ==
    /\ ctx = FALSE
    /\ ctx' = TRUE
    /\ resp' = IF get_user_by_id(sess, user_id) = 0
               THEN Response("GET", user_id, NoData, 404, "User not found", <<>>)
               ELSE Response("GET", user_id, NoData, 200, "", <<Dump(sess, user_id)>>)
    /\ UNCHANGED userVars

\* UserResource.put as it would be without the schema
UserResource_put_unvalidated(user_id, json) ==
    /\ ctx = FALSE
    /\ ctx' = TRUE
    /\ update_user(user_id, json)
    /\ resp' = IF svc'.error # ""
               THEN Response("PUT", user_id, json,
                             IF NotFoundIn(svc'.error) THEN 404 ELSE 400, svc'.error, <<>>)
               ELSE Response("PUT", user_id, json, 200, "", <<Dump(sess', svc'.user)>>)

\* UserResource.put as it would be if every error of the service were a 400
UserResource_put_flat(user_id, json) ==
    LET loaded == Load(json, TRUE)
    IN  /\ ctx = FALSE
        /\ ctx' = TRUE
        /\ IF ~loaded.ok
           THEN /\ resp' = Response("PUT", user_id, json, 400, "Validation error", <<>>)
                /\ UNCHANGED userVars
           ELSE /\ update_user(user_id, loaded.data)
                /\ resp' = IF svc'.error # ""
                           THEN Response("PUT", user_id, json, 400, svc'.error, <<>>)
                           ELSE Response("PUT", user_id, json, 200, "", <<Dump(sess', svc'.user)>>)

\* UserResource.put
UserResource_put(user_id, json) ==
    LET loaded == Load(json, TRUE)
    IN  /\ ctx = FALSE
        /\ ctx' = TRUE
        /\ IF ~loaded.ok
           THEN /\ resp' = Response("PUT", user_id, json, 400, "Validation error", <<>>)
                /\ UNCHANGED userVars
           ELSE /\ update_user(user_id, loaded.data)
                /\ resp' = IF svc'.error # ""
                           THEN Response("PUT", user_id, json,
                                         IF NotFoundIn(svc'.error) THEN 404 ELSE 400,
                                         svc'.error, <<>>)
                           ELSE Response("PUT", user_id, json, 200, "", <<Dump(sess', svc'.user)>>)

\* UserResource.delete
UserResource_delete(user_id) ==
    /\ ctx = FALSE
    /\ ctx' = TRUE
    /\ delete_user(user_id)
    /\ resp' = IF svc'.error # ""
               THEN Response("DELETE", user_id, NoData,
                             IF NotFoundIn(svc'.error) THEN 404 ELSE 400, svc'.error, <<>>)
               ELSE Response("DELETE", user_id, NoData, 204, "", <<>>)

\* the end of the request: the application context is popped and db.session removed
Teardown ==
    /\ ctx = TRUE
    /\ ctx' = FALSE
    /\ SessionRemove
    /\ resp' = resp

---------------------------------------------------------------------------
(* class Calculator (src/yuh.py) *)

\* a return value: a number, or text
RetNum(v) == [t |-> "num", num |-> v, text |-> <<>>]

RetText(s) == [t |-> "text", num |-> MkInt(0), text |-> s]

\* "Error: Cannot divide by zero"
DivideByZeroText ==
    <<"E", "r", "r", "o", "r", ":", " ", "C", "a", "n", "n", "o", "t", " ", "d", "i", "v", "i", "d", "e", " ", "b", "y", " ", "z", "e", "r", "o">>

\* the operands a caller may pass: ints, and the floats 0.0, -0.0, 0.25 and 7.5
IntInputs == {MkInt(i) : i \in -MaxInt..MaxInt}

FloatInputs ==
    {MkFloat(<<0, 1>>, FALSE), MkFloat(<<0, 1>>, TRUE), MkFloat(<<1, 4>>, FALSE), MkFloat(<<15, 2>>, FALSE)}

Inputs == IntInputs \cup FloatInputs

NoCall == [op |-> "none", a |-> MkInt(0), b |-> MkInt(0), ret |-> RetNum(MkInt(0))]

\* Calculator.__init__
CalcInit ==
    /\ result = MkInt(0)
    /\ operations_performed = 0
    /\ operation_name = ""
    /\ last = NoCall
    /\ calls = 0

\* Calculator.get_result
get_result == result

\* Calculator.get_operation_name
get_operation_name == operation_name

\* add as it would be if it accumulated into the running result
add_running(a, b) ==
    /\ result' = PyAdd(result, PyAdd(a, b))
    /\ operations_performed' = operations_performed + 1
    /\ operation_name' = "Addition"
    /\ last' = [op |-> "add", a |-> a, b |-> b, ret |-> RetNum(result')]
    /\ calls' = calls + 1

\* Calculator.add
add(a, b) ==
    /\ result' = PyAdd(a, b)
    /\ operations_performed' = operations_performed + 1
    /\ operation_name' = "Addition"
    /\ last' = [op |-> "add", a |-> a, b |-> b, ret |-> RetNum(result')]
    /\ calls' = calls + 1

\* Calculator.subtract
subtract(a, b) ==
    /\ result' = PySub(a, b)
    /\ operations_performed' = operations_performed + 1
    /\ operation_name' = "Subtraction"
    /\ last' = [op |-> "subtract", a |-> a, b |-> b, ret |-> RetNum(result')]
    /\ calls' = calls + 1

\* multiply as it would be if it rounded the product to an int: round(a * b)
multiply_rounded(a, b) ==
    /\ result' = LET p == PyMul(a, b)
                     h == (2 * p.n + p.d) \div (2 * p.d)
                 IN  MkInt(IF (2 * p.n + p.d) % (2 * p.d) = 0 /\ h % 2 = 1 THEN h - 1 ELSE h)
    /\ operations_performed' = operations_performed + 1
    /\ operation_name' = "Multiplication"
    /\ last' = [op |-> "multiply", a |-> a, b |-> b, ret |-> RetNum(result')]
    /\ calls' = calls + 1

\* Calculator.multiply
multiply(a, b) ==
    /\ result' = PyMul(a, b)
    /\ operations_performed' = operations_performed + 1
    /\ operation_name' = "Multiplication"
    /\ last' = [op |-> "multiply", a |-> a, b |-> b, ret |-> RetNum(result')]
    /\ calls' = calls + 1

\* an exception that escapes a call
RetRaise(name) == [t |-> "raise", num |-> MkInt(0), text |-> name]

\* divide as it would be without its guard: a / 0 raises ZeroDivisionError
divide_unguarded(a, b) ==
    /\ operations_performed' = operations_performed + 1
    /\ operation_name' = "Division"
    /\ IF IsZero(b)
       THEN /\ result' = result
            /\ last' = [op |-> "divide", a |-> a, b |-> b, ret |-> RetRaise(<<"ZeroDivisionError">>)]
       ELSE /\ result' = PyDiv(a, b)
            /\ last' = [op |-> "divide", a |-> a, b |-> b, ret |-> RetText(Str(result'))]
    /\ calls' = calls + 1

\* divide as it would be if it returned the quotient without storing it
divide_unstored(a, b) ==
    /\ operations_performed' = operations_performed + 1
    /\ operation_name' = "Division"
    /\ result' = result
    /\ last' = [op |-> "divide", a |-> a, b |-> b,
                ret |-> IF IsZero(b) THEN RetText(DivideByZeroText) ELSE RetText(Str(PyDiv(a, b)))]
    /\ calls' = calls + 1

\* divide as it would be if it counted the call after its guard
divide_counted_late(a, b) ==
    /\ operation_name' = "Division"
    /\ IF IsZero(b)
       THEN /\ result' = result
            /\ operations_performed' = operations_performed
            /\ last' = [op |-> "divide", a |-> a, b |-> b, ret |-> RetText(DivideByZeroText)]
       ELSE /\ result' = PyDiv(a, b)
            /\ operations_performed' = operations_performed + 1
            /\ last' = [op |-> "divide", a |-> a, b |-> b, ret |-> RetText(Str(result'))]
    /\ calls' = calls + 1

\* Calculator.divide
divide(a, b) ==
    /\ operations_performed' = operations_performed + 1
    /\ operation_name' = "Division"
    /\ IF IsZero(b)
       THEN /\ result' = result
            /\ last' = [op |-> "divide", a |-> a, b |-> b, ret |-> RetText(DivideByZeroText)]
       ELSE /\ result' = PyDiv(a, b)
            /\ last' = [op |-> "divide", a |-> a, b |-> b, ret |-> RetText(Str(result'))]
    /\ calls' = calls + 1

\* Calculator.perform_operation
perform_operation(a, b) == add(a, b)

\* no menu loop runs
MenuIdle ==
    /\ pc = "none"
    /\ choice = <<>>
    /\ num1 = MkInt(0)
    /\ out = [prefix |-> "", msg |-> "", val |-> <<>>]
    /\ line = <<>>
    /\ ev = "none"

\* no service call was made: the table is empty
NoSvc == [op |-> "none", id |-> 0, data |-> NoData, ok |-> FALSE, user |-> 0, error |-> ""]

UsersIdle ==
    /\ db = <<>>
    /\ sess = <<>>
    /\ svc = NoSvc
    /\ made = [i \in Ids |-> NoData]
    /\ work = [w \in Workers |-> IdleWork]

\* a new Calculator and nothing else
CalcSpecInit == CalcInit /\ MenuIdle /\ UsersIdle /\ ApiIdle

\* a client of the class: any operation, on any operands
CalcNext ==
    \/ \E a \in Inputs, b \in Inputs :
        calls < MaxOps /\ add(a, b) /\ UNCHANGED <<menuVars, userVars, apiVars, made, work>>
    \/ \E a \in Inputs, b \in Inputs :
        calls < MaxOps /\ subtract(a, b) /\ UNCHANGED <<menuVars, userVars, apiVars, made, work>>
    \/ \E a \in Inputs, b \in Inputs :
        calls < MaxOps /\ multiply(a, b) /\ UNCHANGED <<menuVars, userVars, apiVars, made, work>>
    \/ \E a \in Inputs, b \in Inputs :
        calls < MaxOps /\ divide(a, b) /\ UNCHANGED <<menuVars, userVars, apiVars, made, work>>
    \/ \E a \in Inputs, b \in Inputs :
        calls < MaxOps /\ perform_operation(a, b) /\ UNCHANGED <<menuVars, userVars, apiVars, made, work>>

SpecCalc == CalcSpecInit /\ [][CalcNext]_vars

---------------------------------------------------------------------------
(* calculator_with_error_handling (src/yuh.py) *)

\* what the user may type at the menu
ChoiceLines ==
    {<<"1">>, <<"2">>, <<"3">>, <<"4">>, <<"5">>, <<"6">>, <<>>, <<"1", "2">>, <<"a", "d", "d">>}

\* what the user may type for an operand: "0", "-0", "0.0", "2", "-7.5", ".25", and
\* the lines "" and "1.2.", which are no number
NumLines ==
    {<<"0">>, <<"-", "0">>, <<"0", ".", "0">>, <<"2">>, <<"-", "7", ".", "5">>, <<".", "2", "5">>,
     <<>>, <<"1", ".", "2", ".">>}

Printed(prefix, msg, val) == [prefix |-> prefix, msg |-> msg, val |-> val]

\* calc = Calculator(), and the loop waits for the choice
MenuInit ==
    /\ CalcInit
    /\ UsersIdle
    /\ ApiIdle
    /\ pc = "menu"
    /\ choice = <<>>
    /\ num1 = MkInt(0)
    /\ out = Printed("", "", <<>>)
    /\ line = <<>>
    /\ ev = "none"

\* ReadChoice as it would be without the check of the choice
ReadChoice_unvalidated(s) ==
    /\ pc = "menu"
    /\ s \in {<<"1">>, <<"2">>, <<"3">>, <<"4">>} => calls < MaxOps
    /\ line' = s
    /\ ev' = "choice"
    /\ choice' = s
    /\ IF s = <<"5">>
       THEN /\ out' = Printed("Goodbye!", "", <<>>)
            /\ pc' = "done"
       ELSE /\ out' = Printed("5. Exit", "", <<>>)
            /\ pc' = "num1"
    /\ UNCHANGED <<calcVars, num1>>

\* choice = input("Enter your choice (1-5): ") returns s
ReadChoice(s) ==
    /\ pc = "menu"
    /\ s \in {<<"1">>, <<"2">>, <<"3">>, <<"4">>} => calls < MaxOps
    /\ line' = s
    /\ ev' = "choice"
    /\ choice' = s
    /\ IF s = <<"5">>
       THEN /\ out' = Printed("Goodbye!", "", <<>>)
            /\ pc' = "done"
       ELSE IF s \notin {<<"1">>, <<"2">>, <<"3">>, <<"4">>}
       THEN /\ out' = Printed("Input Error: ", "Invalid choice. Please enter 1-5.", <<>>)
            /\ pc' = "menu"
       ELSE /\ out' = Printed("5. Exit", "", <<>>)
            /\ pc' = "num1"
    /\ UNCHANGED <<calcVars, num1>>

\* num1 = float(input("Enter first number: ")), input() returns s
ReadNum1(s) ==
    /\ pc = "num1"
    /\ line' = s
    /\ ev' = "num1"
    /\ IF ParseFloat(s).ok
       THEN /\ num1' = ParseFloat(s).v
            /\ pc' = "num2"
            /\ out' = out
       ELSE /\ num1' = num1
            /\ pc' = "menu"
            /\ out' = Printed("Input Error: ", "could not convert string to float: ", s)
    /\ UNCHANGED <<calcVars, choice>>

\* ReadNum2 as it would be without the check of num2: divide's own guard answers
ReadNum2_unchecked(s) ==
    /\ pc = "num2"
    /\ line' = s
    /\ ev' = "num2"
    /\ pc' = "menu"
    /\ LET num2 == ParseFloat(s).v
       IN  IF ~ParseFloat(s).ok
           THEN /\ out' = Printed("Input Error: ", "could not convert string to float: ", s)
                /\ UNCHANGED calcVars
           ELSE IF choice = <<"1">>
           THEN /\ add(num1, num2)
                /\ out' = Printed("Result: ", "", Str(last'.ret.num))
           ELSE IF choice = <<"2">>
           THEN /\ subtract(num1, num2)
                /\ out' = Printed("Result: ", "", Str(last'.ret.num))
           ELSE IF choice = <<"3">>
           THEN /\ multiply(num1, num2)
                /\ out' = Printed("Result: ", "", Str(last'.ret.num))
           ELSE /\ divide(num1, num2)
                /\ out' = Printed("Result: ", "", last'.ret.text)
    /\ UNCHANGED <<choice, num1>>

\* num2 = float(input("Enter second number: ")), input() returns s; then the
\* operation chosen and print(f"Result: {result}")
ReadNum2(s) ==
    /\ pc = "num2"
    /\ line' = s
    /\ ev' = "num2"
    /\ pc' = "menu"
    /\ LET num2 == ParseFloat(s).v
       IN  IF ~ParseFloat(s).ok
           THEN /\ out' = Printed("Input Error: ", "could not convert string to float: ", s)
                /\ UNCHANGED calcVars
           ELSE IF choice = <<"1">>
           THEN /\ add(num1, num2)
                /\ out' = Printed("Result: ", "", Str(last'.ret.num))
           ELSE IF choice = <<"2">>
           THEN /\ subtract(num1, num2)
                /\ out' = Printed("Result: ", "", Str(last'.ret.num))
           ELSE IF choice = <<"3">>
           THEN /\ multiply(num1, num2)
                /\ out' = Printed("Result: ", "", Str(last'.ret.num))
           ELSE IF IsZero(num2)
           THEN /\ out' = Printed("Math Error: ", "Cannot divide by zero", <<>>)
                /\ UNCHANGED calcVars
           ELSE /\ divide(num1, num2)
                /\ out' = Printed("Result: ", "", last'.ret.text)
    /\ UNCHANGED <<choice, num1>>

\* Ctrl+C while input() waits: except KeyboardInterrupt
Interrupt ==
    /\ pc \in {"menu", "num1", "num2"}
    /\ ev' = "interrupt"
    /\ out' = Printed("Operation cancelled by user", "", <<>>)
    /\ pc' = "done"
    /\ UNCHANGED <<calcVars, choice, num1, line>>

\* end of input while input() waits: EOFError, caught by except Exception
EndOfInput ==
    /\ pc \in {"menu", "num1", "num2"}
    /\ ev' = "eof"
    /\ out' = Printed("Unexpected error: ", "EOF when reading a line", <<>>)
    /\ pc' = "menu"
    /\ UNCHANGED <<calcVars, choice, num1, line>>

MenuNext ==
    \/ \E s \in ChoiceLines : ReadChoice(s) /\ UNCHANGED <<userVars, apiVars, made, work>>
    \/ \E s \in NumLines : ReadNum1(s) /\ UNCHANGED <<userVars, apiVars, made, work>>
    \/ \E s \in NumLines : ReadNum2(s) /\ UNCHANGED <<userVars, apiVars, made, work>>
    \/ Interrupt /\ UNCHANGED <<userVars, apiVars, made, work>>
    \/ EndOfInput /\ UNCHANGED <<userVars, apiVars, made, work>>

SpecMenu == MenuInit /\ [][MenuNext]_vars


---------------------------------------------------------------------------
(* UserService driven by its callers *)

\* an empty table, a new session
UsersInit == UsersIdle /\ CalcInit /\ MenuIdle /\ ApiIdle

\* callers of the service, in one session or in several
UsersNext ==
    \/ \E d \in CreateDatas : create_user(d) /\ UNCHANGED <<calcVars, menuVars, apiVars, made, work>>
    \/ \E i \in Ids, d \in Datas : update_user(i, d) /\ UNCHANGED <<calcVars, menuVars, apiVars, made, work>>
    \/ \E i \in Ids : delete_user(i) /\ UNCHANGED <<calcVars, menuVars, apiVars, made, work>>
    \/ SessionRemove /\ UNCHANGED <<calcVars, menuVars, apiVars, made, work>>

SpecUsers == UsersInit /\ [][UsersNext]_vars

---------------------------------------------------------------------------
(* UserService called again and again in one session, or in several *)

\* user_data of create_user: two users
SessionCreates ==
    {[name |-> PyStr(<<"A", "l">>), email |-> e, age |-> PyInt(30)] : e \in Emails}

\* user_data of update_user: a new email, well-formed or not; an age out of range, alone
\* or after a new email; a new name, alone or before a new email
SessionUpdates ==
    [name : {Missing}, email : Emails \cup BadEmails, age : {Missing}]
    \cup {[name |-> Missing, email |-> Missing, age |-> PyInt(MaxAge + 50)],
          [name |-> Missing, email |-> PyStr(<<"c", "@", "d", ".", "i", "o">>),
           age |-> PyInt(MaxAge + 50)],
          [name |-> PyStr(<<"B", "o">>), email |-> Missing, age |-> Missing],
          [name |-> PyStr(<<"B", "o">>), email |-> PyStr(<<"c", "@", "d", ".", "i", "o">>),
           age |-> Missing]}

SessionInit == UsersIdle /\ ApiIdle /\ CalcInit /\ MenuIdle

\* the callers of the service; made follows the calls
SessionNext ==
    \/ \E d \in SessionCreates :
          /\ create_user(d)
          /\ made' = IF svc'.ok THEN [made EXCEPT ![svc'.user] = d] ELSE made
          /\ UNCHANGED <<calcVars, menuVars, apiVars, work>>
    \/ \E i \in Ids, d \in SessionUpdates :
          /\ update_user(i, d)
          /\ made' = [made EXCEPT ![i] = NoData]
          /\ UNCHANGED <<calcVars, menuVars, apiVars, work>>
    \/ \E i \in Ids :
          /\ delete_user(i)
          /\ made' = [made EXCEPT ![i] = NoData]
          /\ UNCHANGED <<calcVars, menuVars, apiVars, work>>
    \/ SessionRemove /\ UNCHANGED <<calcVars, menuVars, apiVars, made, work>>

SpecSession == SessionInit /\ [][SessionNext]_vars

---------------------------------------------------------------------------
(* UserService called by concurrent workers, each in a session of its own *)

\* a call that passed its checks and is about to commit; seen is the User object of
\* its session
AtCommit(op, user_id, user_data, seen) ==
    [pc |-> "commit", op |-> op, id |-> user_id, data |-> user_data, seen |-> seen,
     email |-> None, ok |-> FALSE, error |-> "", rivals |-> {}]

\* a call that returned (None, error) before its commit; its locals are gone
Refused(op, error) ==
    [IdleWork EXCEPT !.pc = "done", !.op = op, !.error = error]

\* the email a call asks for
AskedEmail(c) == IF Has(c.data, "email") THEN c.data.email ELSE None

\* the email a call writes at its commit, or None: create_user writes the email of
\* its user, update_user an email that differs from the one it loaded
WrittenEmail(c) ==
    IF c.op = "create_user" THEN c.seen.email
    ELSE IF c.op = "update_user" /\ Has(c.data, "email") /\ c.data.email # c.seen.email
    THEN c.data.email
    ELSE None

\* a call that returned (user, None), here ok, or (None, error) from its commit; its
\* locals are gone.  email: the email it had to write; rivals: the workers that had
\* passed the check of the same email when this call committed
AtReturn(w, ok, error, rivals) ==
    [IdleWork EXCEPT !.pc = "done", !.op = work[w].op, !.email = WrittenEmail(work[w]),
                     !.ok = ok, !.error = error, !.rivals = rivals]

\* the workers other than w that passed the check of the email w asks for and have
\* not committed
Rivals(w) ==
    {v \in Workers \ {w} :
        /\ work[v].pc = "commit"
        /\ AskedEmail(work[v]) # None
        /\ AskedEmail(work[v]) = AskedEmail(work[w])}

\* create_user up to its commit: the user is built and validated, and the email is
\* looked up in the table
create_user_check(w, user_data) ==
    LET user == [name |-> Get(user_data, "name"), email |-> Get(user_data, "email"),
                 age |-> Get(user_data, "age"), created_at |-> 0]
        call == AtCommit("create_user", 0, user_data, user)
    IN  /\ work[w].pc = "idle"
        /\ work' = [work EXCEPT ![w] =
              IF ~is_valid(user)
              THEN Refused(call.op, "Invalid user data")
              ELSE IF get_user_by_email(db, user.email) # 0
              THEN Refused(call.op, "Email already exists")
              ELSE call]
        /\ UNCHANGED <<db, sess, svc>>

\* create_user from db.session.add(user) on: the row is inserted and committed, or
\* the unique column refuses it and the session is rolled back
create_user_commit(w) ==
    LET id   == NextId(db)
        rows == db @@ (id :> [work[w].seen EXCEPT !.created_at = id])
    IN  /\ work[w].pc = "commit"
        /\ work[w].op = "create_user"
        /\ id <= MaxId
        /\ IF Constraints(rows)
           THEN /\ db' = rows
                /\ work' = [work EXCEPT ![w] = AtReturn(w, TRUE, "", Rivals(w))]
           ELSE /\ db' = db
                /\ work' = [work EXCEPT ![w] =
                               AtReturn(w, FALSE, "Database integrity error", Rivals(w))]
        /\ UNCHANGED <<sess, svc>>

\* update_user up to its commit: the user is loaded, the fields of user_data are
\* assigned to it, the new email is looked up in the table, the user is validated
update_user_check(w, user_id, user_data) ==
    LET seen   == IF user_id \in DOMAIN db THEN db[user_id] ELSE NoRow
        call   == AtCommit("update_user", user_id, user_data, seen)
        existing_user == get_user_by_email(db, user_data.email)
        user   == [f \in DOMAIN seen |->
                      IF f # "created_at" /\ Has(user_data, f) THEN user_data[f] ELSE seen[f]]
    IN  /\ work[w].pc = "idle"
        /\ work' = [work EXCEPT ![w] =
              IF get_user_by_id(db, user_id) = 0
              THEN Refused(call.op, "User not found")
              ELSE IF Has(user_data, "email") /\ existing_user # 0 /\ existing_user # user_id
              THEN Refused(call.op, "Email already exists")
              ELSE IF ~is_valid(user)
              THEN Refused(call.op, "Invalid user data")
              ELSE call]
        /\ UNCHANGED <<db, sess, svc>>

\* the row an UPDATE of the session writes: the columns whose value differs from the
\* one the session loaded are set, the others are left as the table has them
Updated(row, seen, user_data) ==
    [f \in DOMAIN row |->
        IF f # "created_at" /\ Has(user_data, f) /\ user_data[f] # seen[f]
        THEN user_data[f] ELSE row[f]]

\* update_user from db.session.commit() on: the changed columns are written to the
\* row of that id and committed; if there is something to write and the row is no
\* longer there the flush raises, except Exception rolls back and the call returns
\* str(e); if the unique column refuses the email the session is rolled back
update_user_commit(w) ==
    LET i     == work[w].id
        row   == IF i \in DOMAIN db THEN db[i] ELSE NoRow
        dirty == Updated(work[w].seen, work[w].seen, work[w].data) # work[w].seen
        rows  == [k \in DOMAIN db |->
                     IF k = i THEN Updated(row, work[w].seen, work[w].data) ELSE db[k]]
    IN  /\ work[w].pc = "commit"
        /\ work[w].op = "update_user"
        /\ IF dirty /\ i \notin DOMAIN db
           THEN /\ db' = db
                /\ work' = [work EXCEPT ![w] = AtReturn(w, FALSE, "StaleDataError", Rivals(w))]
           ELSE IF Constraints(rows)
           THEN /\ db' = rows
                /\ work' = [work EXCEPT ![w] = AtReturn(w, TRUE, "", Rivals(w))]
           ELSE /\ db' = db
                /\ work' = [work EXCEPT ![w] =
                               AtReturn(w, FALSE, "Database integrity error", Rivals(w))]
        /\ UNCHANGED <<sess, svc>>

\* delete_user, in one step: the user is loaded, deleted, and the delete committed.
\* What a delete leaves in the table is the same wherever the other calls stand
\* between its lookup and its commit, so the two are not taken apart
delete_user_call(w, user_id) ==
    /\ work[w].pc = "idle"
    /\ IF get_user_by_id(db, user_id) = 0
       THEN /\ db' = db
            /\ work' = [work EXCEPT ![w] = Refused("delete_user", "User not found")]
       ELSE /\ db' = [k \in DOMAIN db \ {user_id} |-> db[k]]
            /\ work' = [work EXCEPT ![w] =
                           [IdleWork EXCEPT !.pc = "done", !.op = "delete_user", !.ok = TRUE]]
    /\ UNCHANGED <<sess, svc>>

\* the call is over and the worker is free for the next one
worker_return(w) ==
    /\ work[w].pc = "done"
    /\ work' = [v \in Workers |->
                   IF v = w THEN IdleWork ELSE [work[v] EXCEPT !.rivals = @ \ {w}]]
    /\ UNCHANGED <<db, sess, svc>>

\* user_data of the workers' calls: two users to create, an email to change
WorkerCreates == SessionCreates

WorkerUpdates == [name : {Missing}, email : Emails, age : {Missing}]

WorkersInit == UsersIdle /\ ApiIdle /\ CalcInit /\ MenuIdle

\* the workers' calls, interleaved at their queries and commits
WorkersNext ==
    \/ \E w \in Workers, d \in WorkerCreates :
          create_user_check(w, d) /\ UNCHANGED <<calcVars, menuVars, apiVars, made>>
    \/ \E w \in Workers : create_user_commit(w) /\ UNCHANGED <<calcVars, menuVars, apiVars, made>>
    \/ \E w \in Workers, i \in Ids, d \in WorkerUpdates :
          update_user_check(w, i, d) /\ UNCHANGED <<calcVars, menuVars, apiVars, made>>
    \/ \E w \in Workers : update_user_commit(w) /\ UNCHANGED <<calcVars, menuVars, apiVars, made>>
    \/ \E w \in Workers, i \in Ids :
          delete_user_call(w, i) /\ UNCHANGED <<calcVars, menuVars, apiVars, made>>
    \/ \E w \in Workers : worker_return(w) /\ UNCHANGED <<calcVars, menuVars, apiVars, made>>

SpecWorkers == WorkersInit /\ [][WorkersNext]_vars

---------------------------------------------------------------------------
(* The API driven by HTTP clients, one request at a time *)

\* a JSON body: an object with any of the members name, email and age
Json(name, email, age) == [name |-> name, email |-> email, age |-> age]

\* bodies of POST /api/users: two users, one of them with its age as text; an address
\* that is one for fields.Email and none for User.is_email_valid; a body without age
PostJsons ==
    {Json(PyStr(<<"A", "l">>), PyStr(<<"a", "@", "b", ".", "c", "o">>), PyInt(30)),
     Json(PyStr(<<"A", "l">>), PyStr(<<"c", "@", "d", ".", "i", "o">>), PyStr(<<"7">>)),
     Json(PyStr(<<"A", "l">>), PyStr(<<"a", "@", "b", ".", "c", "1">>), PyInt(30)),
     Json(PyStr(<<"A", "l">>), PyStr(<<"c", "@", "d", ".", "i", "o">>), Missing)}

\* bodies of PUT /api/users/<id>: a new name, a new email, an age out of range, a
\* new name with an address that only fields.Email accepts, and all three fields
PutJsons ==
    {Json(PyStr(<<"B", "o">>), Missing, Missing),
     Json(Missing, PyStr(<<"c", "@", "d", ".", "i", "o">>), Missing),
     Json(Missing, Missing, PyInt(MaxAge + 50)),
     Json(PyStr(<<"B", "o">>), PyStr(<<"a", "@", "b", ".", "c", "1">>), Missing),
     Json(PyStr(<<"B", "o">>), PyStr(<<"a", "@", "b", ".", "c", "o">>), PyInt(30))}

\* create_app: an empty table, no request yet
HttpInit == ApiIdle /\ UsersIdle /\ CalcInit /\ MenuIdle

\* a request is handled, then its application context ends
HttpNext ==
    \/ UserListResource_get /\ UNCHANGED <<calcVars, menuVars, made, work>>
    \/ \E j \in PostJsons : UserListResource_post(j) /\ UNCHANGED <<calcVars, menuVars, made, work>>
    \/ \E i \in Ids : UserResource_get(i) /\ UNCHANGED <<calcVars, menuVars, made, work>>
    \/ \E i \in Ids, j \in PutJsons : UserResource_put(i, j) /\ UNCHANGED <<calcVars, menuVars, made, work>>
    \/ \E i \in Ids : UserResource_delete(i) /\ UNCHANGED <<calcVars, menuVars, made, work>>
    \/ Teardown /\ UNCHANGED <<calcVars, menuVars, made, work>>

SpecHttp == HttpInit /\ [][HttpNext]_vars

---------------------------------------------------------------------------
(* Properties of class Calculator, checked under SpecCalc *)

\* C1: divide(a, 0) returns the text "Error: Cannot divide by zero" as its value and
\* raises nothing, for every a and whatever was called before.
C1_DivideByZeroReturnsError ==
    (last.op = "divide" /\ IsZero(last.b)) => last.ret = RetText(DivideByZeroText)

\* a divide by the float zero -0.0, after another call
C1_Witness ==
    /\ last.op = "divide"
    /\ last.b = MkFloat(<<0, 1>>, TRUE)
    /\ last.a = MkInt(2)
    /\ calls = 2
    /\ last.ret.text = DivideByZeroText

\* C2: on ints a and b, add returns a+b, subtract a-b and multiply a*b, in every
\* calculator state: the value returned is a function of the two arguments alone.
C2_IntArithmetic ==
    BothInt(last.a, last.b) =>
        /\ last.op = "add" => last.ret = RetNum(MkInt(last.a.n + last.b.n))
        /\ last.op = "subtract" => last.ret = RetNum(MkInt(last.a.n - last.b.n))
        /\ last.op = "multiply" => last.ret = RetNum(MkInt(last.a.n * last.b.n))

\* add(2, -1) returns 1 on a calculator whose running result was not 0
C2_Witness ==
    /\ last.op = "add"
    /\ last.a = MkInt(2)
    /\ last.b = MkInt(-1)
    /\ last.ret.num = MkInt(1)
    /\ calls = 2
    /\ operation_name = "Addition"

\* C3: for b != 0, divide(a, b) stores the quotient a/b as the running result and
\* returns it as text, which reads back as the quotient and is never the
\* division-by-zero text.
C3_DivideStoresQuotient ==
    (last.op = "divide" /\ ~IsZero(last.b)) =>
        /\ result = PyDiv(last.a, last.b)
        /\ last.ret = RetText(Str(result))
        /\ ParseFloat(last.ret.text).ok
        /\ ParseFloat(last.ret.text).v = result
        /\ last.ret.text # DivideByZeroText

\* divide(1, -2) = -0.5, returned as "-0.5"
C3_Witness ==
    /\ last.op = "divide"
    /\ last.a = MkInt(1)
    /\ last.b = MkInt(-2)
    /\ result = MkFloat(<<-1, 2>>, FALSE)
    /\ last.ret.text = <<"-", "0", ".", "5">>

\* C4: after any sequence of calls, get_result() is the value the last operation
\* produced (for divide, the value its text renders) and the counter includes the call.
C4_ResultReflectsLastOperation ==
    calls > 0 =>
        /\ operations_performed >= 1
        /\ IF last.ret.t = "num"
           THEN get_result = last.ret.num
           ELSE Str(get_result) = last.ret.text

\* C7: operations_performed is 0 on a new Calculator, equals the number of calls made
\* to add, subtract, multiply, divide and perform_operation, and never decreases.
C7_CounterCountsCalls ==
    /\ [](operations_performed = calls)
    /\ [][operations_performed' >= operations_performed]_vars

\* two calls counted, the second a divide by zero
C7_Witness ==
    /\ calls = 2
    /\ operations_performed = 2
    /\ last.op = "divide"
    /\ IsZero(last.b)

\* the exact value of a op b as a fraction <<n, d>>, d > 0
ExactValue(op, a, b) ==
    CASE op = "add" -> <<a.n * b.d + b.n * a.d, a.d * b.d>>
      [] op = "subtract" -> <<a.n * b.d - b.n * a.d, a.d * b.d>>
      [] op = "multiply" -> <<a.n * b.n, a.d * b.d>>
      [] op = "divide" -> <<(IF b.n < 0 THEN -1 ELSE 1) * a.n * b.d, a.d * Abs(b.n)>>

\* the number a call returned: its value, or the value its text reads as
Returned(r) == IF r.t = "num" THEN r.num ELSE ParseFloat(r.text).v

\* C8: on float inputs, add, subtract, multiply and divide (b != 0) return the
\* floating-point sum, difference, product and quotient: the exact value rounded once
\* to the nearest float, and exactly the value where that is a float.
C8_FloatExact ==
    (/\ last.op \in {"add", "subtract", "multiply", "divide"}
     /\ ~(last.op = "divide" /\ IsZero(last.b))
     /\ (last.a.k = "float" \/ last.b.k = "float")) =>
        LET x == ExactValue(last.op, last.a, last.b)
            v == Returned(last.ret)
        IN  /\ v.k = "float"
            /\ <<v.n, v.d>> = Round(x[1], x[2])
            /\ (Round(x[1], x[2]) = Norm(x[1], x[2]) => v.n * x[2] = x[1] * v.d)

\* 7.5 * 0.25 = 1.875, a float; and 7.5 + 0.25, which rounds
C8_Witness ==
    /\ last.op = "multiply"
    /\ last.a = MkFloat(<<15, 2>>, FALSE)
    /\ last.b = MkFloat(<<1, 4>>, FALSE)
    /\ last.ret.num = MkFloat(<<15, 8>>, FALSE)

---------------------------------------------------------------------------
(* Properties of calculator_with_error_handling, checked under SpecMenu *)

\* C5: a choice other than "1".."5" prints a message, performs no calculator
\* operation, asks for no operand and leaves the loop at the menu.
C5_InvalidChoiceKeepsLoop ==
    [][(ev' = "choice" /\ line' \notin {<<"1">>, <<"2">>, <<"3">>, <<"4">>, <<"5">>}) =>
        /\ out' = Printed("Input Error: ", "Invalid choice. Please enter 1-5.", <<>>)
        /\ pc' = "menu"
        /\ UNCHANGED <<calcVars, num1>>]_vars

\* the choice "6" after an operation was performed
C5_Witness ==
    /\ ev = "choice"
    /\ line = <<"6">>
    /\ calls = 1
    /\ pc = "menu"
    /\ out.prefix = "Input Error: "

\* C6: Divide with a second operand equal to 0 prints the division-by-zero message
\* and the loop goes on at the menu: it neither ends nor lets an exception out.
C6_MenuDivideByZero ==
    [][(/\ ev' = "num2"
        /\ choice = <<"4">>
        /\ ParseFloat(line').ok
        /\ IsZero(ParseFloat(line').v)) =>
        /\ out' = Printed("Math Error: ", "Cannot divide by zero", <<>>)
        /\ pc' = "menu"]_vars

\* 2 / -0 at the menu
C6_Witness ==
    /\ ev = "num2"
    /\ choice = <<"4">>
    /\ line = <<"-", "0">>
    /\ num1 = MkFloat(<<2, 1>>, FALSE)
    /\ out.prefix = "Math Error: "
    /\ pc = "menu"


---------------------------------------------------------------------------
(* Properties of UserService, checked under SpecUsers *)

\* C9: after any sequence of create_user, update_user and delete_user calls no two
\* stored users have the same email, neither among the committed rows nor among the
\* rows get_all_users returns.
C9_EmailsUnique ==
    /\ \A i \in DOMAIN db, j \in DOMAIN db : i # j => db[i].email # db[j].email
    /\ \A i \in DOMAIN get_all_users, j \in DOMAIN get_all_users :
          i # j => get_all_users[i].email # get_all_users[j].email

\* two users are stored and an update of one asked for the email of the other
C9_Witness ==
    /\ DOMAIN db = {1, 2}
    /\ svc.op = "update_user"
    /\ svc.id = 2
    /\ svc.data.email = db[1].email
    /\ svc.error = "Email already exists"

\* C10: after any sequence of create_user and update_user calls, failed ones included,
\* every stored user satisfies User.is_valid.
C10_StoredUsersValid == \A i \in DOMAIN db : is_valid(db[i])


---------------------------------------------------------------------------
(* Properties of the API resources, checked under SpecHttp *)

\* name, email and age of a row are those of the dict
SameFields(row, data) ==
    row.name = data.name /\ row.email = data.email /\ row.age = data.age

\* C11: POST /api/users answers 201 with the created user exactly when the body passes
\* the schema and create_user succeeds, and the user is then stored next to the users
\* there were; in every other case (the schema rejects the body, or create_user returns
\* an error) it answers 400 and the table is as it was.
C11_PostCreatedOrRejected ==
    [][\A j \in PostJsons : UserListResource_post(j) =>
          LET loaded == Load(j, FALSE)
          IN  /\ resp'.status \in {201, 400}
              /\ resp'.status = 201 <=> (loaded.ok /\ svc'.ok)
              /\ resp'.status = 201 =>
                    /\ svc'.user \in DOMAIN db' \ DOMAIN db
                    /\ DOMAIN db' = DOMAIN db \cup {svc'.user}
                    /\ \A i \in DOMAIN db : db'[i] = db[i]
                    /\ SameFields(db'[svc'.user], loaded.data)
                    /\ resp'.users = <<Dump(db', svc'.user)>>
              /\ resp'.status = 400 =>
                    /\ db' = db
                    /\ resp'.users = <<>>
                    /\ resp'.message = IF loaded.ok THEN svc'.error ELSE "Validation error"
                    /\ resp'.message # ""]_vars

\* a second user was created from a body whose age is text, and the request is over
C11_Witness ==
    /\ resp.method = "POST"
    /\ resp.status = 201
    /\ resp.json.age = PyStr(<<"7">>)
    /\ ctx = FALSE
    /\ DOMAIN db = {1, 2}
    /\ db[2].age = PyInt(7)
    /\ resp.users = <<Dump(db, 2)>>


\* the response to a request for a user there is not
NotFound(r) == r.status = 404 /\ r.message = "User not found" /\ r.users = <<>>

\* C12, as stated: for an id that no stored user has, GET, PUT and DELETE on
\* /api/users/<id> each answer 404 with the message "User not found", and the table is
\* as it was.
C12_MissingUserIs404 ==
    [][\A i \in Ids \ DOMAIN db :
          (\/ UserResource_get(i)
           \/ \E j \in PutJsons : UserResource_put(i, j)
           \/ UserResource_delete(i))
          => NotFound(resp') /\ db' = db]_vars

\* C12, amended: for an id that no stored user has, GET, DELETE and a PUT whose body
\* the schema accepts each answer 404 with the message "User not found", and the table
\* is as it was; a PUT whose body the schema rejects answers 400 "Validation error"
\* before any user is looked up, and also leaves the table as it was.
C12_MissingUserIs404_ValidBody ==
    [][\A i \in Ids \ DOMAIN db :
          /\ (\/ UserResource_get(i)
              \/ \E j \in PutJsons : Load(j, TRUE).ok /\ UserResource_put(i, j)
              \/ UserResource_delete(i))
             => NotFound(resp') /\ db' = db
          /\ (\E j \in PutJsons : ~Load(j, TRUE).ok /\ UserResource_put(i, j))
             => resp'.status = 400 /\ resp'.message = "Validation error" /\ db' = db]_vars

\* user 1 was deleted, user 2 is stored, and a PUT for user 1 was answered 404
C12_Witness ==
    /\ DOMAIN db = {2}
    /\ resp.method = "PUT"
    /\ resp.id = 1
    /\ NotFound(resp)
    /\ ctx = FALSE


\* C13: DELETE /api/users/<id> for a stored user answers 204 with an empty body,
\* removes that user and leaves every other user as it was.  An id that no user has
\* stays so at every step other than a POST that creates a user with that id; while
\* it is so, GET /api/users/<id> answers 404 and GET /api/users lists no such user.
C13_DeleteRemovesUser ==
    [][/\ \A i \in DOMAIN db :
             UserResource_delete(i) =>
                /\ resp'.status = 204 /\ resp'.message = "" /\ resp'.users = <<>>
                /\ DOMAIN db' = DOMAIN db \ {i}
                /\ \A k \in DOMAIN db' : db'[k] = db[k]
       /\ \A i \in Ids \ DOMAIN db :
             /\ UserResource_get(i) => resp'.status = 404
             /\ UserListResource_get =>
                   /\ Len(resp'.users) = Cardinality(DOMAIN db)
                   /\ \A n \in 1..Len(resp'.users) : resp'.users[n].id # i
             /\ i \in DOMAIN db' =>
                   \E j \in PostJsons :
                      UserListResource_post(j) /\ resp'.status = 201 /\ svc'.user = i]_vars

\* user 1 of two was deleted, and GET /api/users then listed user 2 alone
C13_Witness ==
    /\ svc = ServiceReturn("delete_user", 1, NoData, TRUE, 0, "")
    /\ DOMAIN db = {2}
    /\ resp.method = "GET"
    /\ resp.id = 0
    /\ resp.users = <<Dump(db, 2)>>


---------------------------------------------------------------------------
(* Properties of the return values of UserService, checked under SpecUsers *)

\* C14: every call of create_user, update_user and delete_user returns a pair whose
\* error is None exactly when the call succeeded: create_user and update_user return
\* the user and no error, or no user and a message; delete_user returns True and no
\* error, or False and a message.
C14_ResultOrError ==
    svc.op # "none" =>
        /\ svc.ok <=> svc.error = ""
        /\ svc.op \in {"create_user", "update_user"} => (svc.ok <=> svc.user # 0)
        /\ svc.op = "delete_user" => svc.user = 0
        /\ svc.ok /\ svc.op \in {"create_user", "update_user"} => svc.user \in DOMAIN db

\* a delete of a user there is not, next to a stored user
C14_Witness ==
    /\ svc = ServiceReturn("delete_user", 2, NoData, FALSE, 0, "User not found")
    /\ DOMAIN db = {1}


---------------------------------------------------------------------------
(* Properties of UserService over the stored users, checked under SpecSession *)

\* C15: create_user with valid data whose email a stored user already has returns
\* (None, "Email already exists") and leaves the table as it was: no user is added and
\* no stored user is modified.
C15_DuplicateCreateRejected ==
    [][\A d \in SessionCreates :
          (create_user(d) /\ \E i \in DOMAIN db : db[i].email = d.email) =>
             /\ svc'.user = 0
             /\ svc'.error = "Email already exists"
             /\ db' = db]_vars


\* C17: a successful update_user(id, data) gives the stored user id the fields of data
\* and changes nothing else: its fields absent from data and its created_at, the ids
\* of the table, and every other stored user are as they were.
C17_UpdateChangesOnlyGivenFields ==
    [][\A i \in DOMAIN db, d \in SessionUpdates :
          (update_user(i, d) /\ svc'.ok) =>
             /\ DOMAIN db' = DOMAIN db
             /\ \A k \in DOMAIN db \ {i} : db'[k] = db[k]
             /\ db'[i].created_at = db[i].created_at
             /\ \A f \in {"name", "email", "age"} :
                   db'[i][f] = IF Has(d, f) THEN d[f] ELSE db[i][f]]_vars

\* C18: update_user answers "Email already exists" only for an email that another
\* stored user has; the stored email of the updated user itself is not reported as a
\* duplicate, and an update to the email of another stored user never succeeds.
C18_DuplicateOnlyForOtherUser ==
    [][\A i \in DOMAIN db, d \in SessionUpdates :
          (update_user(i, d) /\ Has(d, "email")) =>
             LET others == {j \in DOMAIN db \ {i} : db[j].email = d.email}
             IN  /\ d.email = db[i].email => svc'.error # "Email already exists"
                 /\ others # {} => ~svc'.ok
                 /\ svc'.error = "Email already exists" => others # {}]_vars

\* C20: when update_user returns an error the users are as they were before the call,
\* in the table and for get_user_by_id and get_all_users.
C20_FailedUpdateLeavesNoTrace ==
    [][\A i \in Ids, d \in SessionUpdates :
          (update_user(i, d) /\ ~svc'.ok) => get_all_users' = get_all_users /\ db' = db]_vars


\* C16: after create_user(d) succeeded with the user's id, and until update_user or
\* delete_user is called on that id, get_user_by_id of the id yields a user whose
\* name, email and age are those of d, whatever is called on other ids and whether
\* the session goes on or a new one begins.
C16_CreateThenGet ==
    \A id \in Ids :
        made[id] # NoData =>
            /\ get_user_by_id(get_all_users, id) = id
            /\ SameFields(get_all_users[id], made[id])

\* user 1 was created, and a failed update of user 2 is pending in the session
C16_Witness ==
    /\ made[1] # NoData
    /\ svc.op = "update_user"
    /\ svc.id = 2
    /\ svc.error = "Invalid user data"
    /\ sess # db
    /\ SameFields(sess[1], made[1])


---------------------------------------------------------------------------
(* Properties of PUT /api/users/<id>, checked under SpecHttp *)

\* C19, as stated: PUT /api/users/<id> answers 200 with the updated user when
\* update_user succeeds, 404 when the user does not exist, and 400 when the body fails
\* schema validation or update_user reports a duplicate email, invalid data or an
\* integrity error.
C19_PutStatus ==
    [][\A i \in Ids, j \in PutJsons :
          UserResource_put(i, j) =>
             LET loaded == Load(j, TRUE)
             IN  /\ (loaded.ok /\ svc'.ok) =>
                       resp'.status = 200 /\ resp'.users = <<Dump(db', i)>>
                 /\ i \notin DOMAIN db => resp'.status = 404
                 /\ ~loaded.ok => resp'.status = 400
                 /\ (loaded.ok /\ svc'.error \in {"Email already exists", "Invalid user data",
                                                 "Database integrity error"})
                       => resp'.status = 400]_vars

\* C19, amended: PUT /api/users/<id> answers 400 "Validation error" when the body
\* fails schema validation, whether the user exists or not; with a body the schema
\* accepts it answers 404 when the user does not exist, 200 with the updated user when
\* update_user succeeds, and 400 with the message of update_user when that reports a
\* duplicate email, invalid data or an integrity error.  The table changes with the 200
\* alone.
C19_PutStatus_SchemaFirst ==
    [][\A i \in Ids, j \in PutJsons :
          UserResource_put(i, j) =>
             LET loaded == Load(j, TRUE)
             IN  IF ~loaded.ok
                 THEN resp'.status = 400 /\ resp'.message = "Validation error" /\ db' = db
                 ELSE IF i \notin DOMAIN db
                 THEN NotFound(resp') /\ db' = db
                 ELSE IF svc'.ok
                 THEN /\ resp'.status = 200
                      /\ resp'.users = <<Dump(db', i)>>
                      /\ \A f \in {"name", "email", "age"} :
                            Has(loaded.data, f) => db'[i][f] = loaded.data[f]
                 ELSE /\ resp'.status = 400
                      /\ resp'.message = svc'.error
                      /\ svc'.error \in {"Email already exists", "Invalid user data",
                                        "Database integrity error"}
                      /\ db' = db]_vars

\* user 2 of two was renamed by a PUT that was answered 200 with the user
C19_Witness ==
    /\ resp.method = "PUT"
    /\ resp.id = 2
    /\ resp.status = 200
    /\ resp.json.name = PyStr(<<"B", "o">>)
    /\ DOMAIN db = {1, 2}
    /\ resp.users = <<Dump(db, 2)>>
    /\ db[2].name = PyStr(<<"B", "o">>)


---------------------------------------------------------------------------
(* Properties of UserService under concurrent workers, checked under SpecWorkers *)

\* no two rows have the same email
EmailsUnique(rows) ==
    \A i \in DOMAIN rows, j \in DOMAIN rows : i # j => rows[i].email # rows[j].email

\* two calls for one email, a create_user among them, that had both looked the email
\* up and found no user with it when the first of them, w1, committed, and that have
\* both returned
RacedPair(w1, w2) ==
    /\ w1 # w2
    /\ work[w1].pc = "done" /\ work[w2].pc = "done"
    /\ w2 \in work[w1].rivals
    /\ "create_user" \in {work[w1].op, work[w2].op}
    /\ work[w1].email # None /\ work[w2].email = work[w1].email

====
